---- MODULE Spec2Model ----
(***************************************************************************)
(* Model of src/mcp_email_reader.py: the four exposed operations           *)
(* (search_emails, download_attachment, list_folders, send_email), the     *)
(* IMAP / SMTP sessions they open, and the MIME decoding helpers they use. *)
(* One operation is in flight at a time (the server is synchronous); pc is *)
(* the position inside the running operation.                              *)
(***************************************************************************)
EXTENDS Integers, Sequences, FiniteSets, TLC

VARIABLES
    pc,               \* position inside the operation in flight, or "idle" / "returned"
    op,               \* name of the operation in flight
    args,             \* its arguments
    imap,             \* IMAP session: "none" | "open" | "closed"
    smtp,             \* SMTP session: "none" | "open" | "closed"
    calls,            \* transport calls issued by the operation in flight, in order
    search_criteria,  \* local of search_emails / download_attachment
    messages,         \* local: identifiers returned by server.search (sorted in search_emails)
    idx,              \* local: loop position (identifier index / part index)
    email_list,       \* local of search_emails
    fetched,          \* history: what server.fetch was asked for and delivered, in order
    msg,              \* local of download_attachment: the fetched message
    saved_files,      \* local of download_attachment
    outbox,           \* what send_email handed to server.send_message
    outcome,          \* "none" | "returned" | "raised"
    result            \* the value returned to the caller

vars == << pc, op, args, imap, smtp, calls, search_criteria, messages, idx,
           email_list, fetched, msg, saved_files, outbox, outcome, result >>

(***************************************************************************)
(* Bounds of the model.                                                    *)
(***************************************************************************)
MaxIds == 3        \* message identifiers are 1..MaxIds
MaxLimit == 2      \* the limit argument ranges over 0..MaxLimit
MaxParts == 2      \* parts of a message drawn for extract_email_bodies
MaxAddrs == 2      \* addresses per to / cc / bcc argument
MaxPaths == 2      \* entries of attachment_paths

(***************************************************************************)
(* Python values.                                                          *)
(***************************************************************************)
None == "None"

\* Character strings that the code splits / strips are sequences of characters.
NoneStr == << "None" >>
IsWhite(c) == c = " "

Truthy(s) == s /= NoneStr /\ s /= << >>

Min(a, b) == IF a < b THEN a ELSE b

RECURSIVE lstrip(_)
lstrip(s) == IF s /= << >> /\ IsWhite(Head(s)) THEN lstrip(Tail(s)) ELSE s

RECURSIVE rstrip(_)
rstrip(s) ==
    IF s /= << >> /\ IsWhite(s[Len(s)]) THEN rstrip(SubSeq(s, 1, Len(s) - 1)) ELSE s

\* str.strip()
strip(s) == rstrip(lstrip(s))

\* str.split(','): always at least one field, fields may be empty
RECURSIVE split(_)
split(s) ==
    IF \A k \in 1..Len(s) : s[k] /= ","
    THEN << s >>
    ELSE LET k == CHOOSE k \in 1..Len(s) :
                      s[k] = "," /\ \A j \in 1..(k - 1) : s[j] /= ","
         IN << SubSeq(s, 1, k - 1) >> \o split(SubSeq(s, k + 1, Len(s)))

\* [email.strip() for email in s.split(',')]
SplitStrip(s) == LET f == split(s) IN [k \in 1..Len(f) |-> strip(f[k])]

(***************************************************************************)
(* Exceptions: an evaluation either yields a value or raises.              *)
(***************************************************************************)
Ok(v) == [ok |-> TRUE, val |-> v, exc |-> "none"]
Raise(e) == [ok |-> FALSE, val |-> << >>, exc |-> e]

(***************************************************************************)
(* MIME messages.                                                          *)
(*   header value : sequence of words, as email.header.decode_header       *)
(*                  yields them; << >> stands for an absent header         *)
(*   word         : [kind, enc, valid, text]; kind "str" is unencoded      *)
(*                  text, kind "bytes" an encoded word in charset enc,     *)
(*                  valid tells whether the bytes are valid in a codec     *)
(*   part         : [ctype, dispo, filename, charset, payload]; dispo is   *)
(*                  the Content-Disposition header text, payload the       *)
(*                  transfer-decoded bytes, "BAD" a byte invalid in the    *)
(*                  part's charset                                         *)
(*   message      : [multipart, subject, parts]; parts are the leaves of   *)
(*                  msg.walk() in document order (a container part has a   *)
(*                  multipart/* type, no disposition and no filename, so   *)
(*                  no branch of the code acts on it)                      *)
(***************************************************************************)
KnownCodecs == { "utf-8" }

StrWord(t) == [kind |-> "str", enc |-> None, valid |-> TRUE, text |-> t]
EncWord(e, v, t) == [kind |-> "bytes", enc |-> e, valid |-> v, text |-> t]

\* part.decode(enc or 'utf-8') if isinstance(part, bytes) else part
DecodeWord(w) ==
    IF w.kind = "bytes"
    THEN LET codec == IF w.enc = None THEN "utf-8" ELSE w.enc
         IN IF codec \notin KnownCodecs THEN Raise("LookupError")
            ELSE IF ~w.valid THEN Raise("UnicodeDecodeError")
            ELSE Ok(w.text)
    ELSE Ok(w.text)

RECURSIVE decode_mime_words(_)
decode_mime_words(s) ==
    IF s = << >> THEN Ok(<< >>)
    ELSE LET h == DecodeWord(Head(s))
         IN IF ~h.ok THEN h
            ELSE LET t == decode_mime_words(Tail(s))
                 IN IF ~t.ok THEN t ELSE Ok(h.val \o t.val)

NotBad(b) == b /= "BAD"

\* payload.decode(charset, errors="ignore") with charset = get_content_charset() or "utf-8"
DecodePayload(part) ==
    LET charset == IF part.charset = None THEN "utf-8" ELSE part.charset
    IN IF charset \notin KnownCodecs THEN Raise("LookupError")
       ELSE Ok(SelectSeq(part.payload, NotBad))

\* "attachment" in str(part.get("Content-Disposition", ""))
MentionsAttachment(dispo) ==
    dispo \in { "attachment", "inline; filename=attachment.txt" }

\* part.get_content_disposition()
get_content_disposition(dispo) ==
    IF dispo = "" THEN None
    ELSE IF dispo = "attachment" THEN "attachment"
    ELSE "inline"

NoPlainText == << "(No plain text content found)" >>
NoHtml == << "(No HTML content found)" >>

\* a faulty variant of BodyStep: no first-match guard, a later part overwrites
BodyStepLastWins(part, acc) ==
    IF MentionsAttachment(part.dispo) THEN acc
    ELSE IF part.ctype = "text/plain"
         THEN LET d == DecodePayload(part)
              IN IF d.ok THEN [acc EXCEPT !.text = d.val] ELSE acc
    ELSE IF part.ctype = "text/html"
         THEN LET d == DecodePayload(part)
              IN IF d.ok THEN [acc EXCEPT !.html = d.val] ELSE acc
    ELSE acc

\* one iteration of the loop over msg.walk() in extract_email_bodies; acc.text and
\* acc.html are text_body and html_body; an exception raised inside the try is
\* swallowed (continue)
BodyStep(part, acc) ==
    IF MentionsAttachment(part.dispo) THEN acc
    ELSE IF part.ctype = "text/plain" /\ acc.text = << >>
         THEN LET d == DecodePayload(part)
              IN IF d.ok THEN [acc EXCEPT !.text = d.val] ELSE acc
    ELSE IF part.ctype = "text/html" /\ acc.html = << >>
         THEN LET d == DecodePayload(part)
              IN IF d.ok THEN [acc EXCEPT !.html = d.val] ELSE acc
    ELSE acc

NoBodies == [text |-> << >>, html |-> << >>]

RECURSIVE WalkBodies(_, _)
WalkBodies(parts, acc) ==
    IF parts = << >> THEN acc ELSE WalkBodies(Tail(parts), BodyStep(Head(parts), acc))

\* text_body.strip() or "(No plain text content found)"
OrSentinel(body, sentinel) == IF strip(body) = << >> THEN sentinel ELSE strip(body)

extract_email_bodies(m) ==
    IF m.multipart
    THEN LET acc == WalkBodies(m.parts, NoBodies)
         IN Ok([text |-> OrSentinel(acc.text, NoPlainText),
                html |-> OrSentinel(acc.html, NoHtml)])
    ELSE LET part == m.parts[1]
             d == DecodePayload(part)
         IN IF part.ctype = "text/plain"
            THEN IF d.ok THEN Ok([text |-> OrSentinel(d.val, NoPlainText), html |-> NoHtml])
                 ELSE d
            ELSE IF part.ctype = "text/html"
            THEN IF d.ok THEN Ok([text |-> NoPlainText, html |-> OrSentinel(d.val, NoHtml)])
                 ELSE d
            ELSE Ok([text |-> NoPlainText, html |-> NoHtml])

\* get_attachment_names: decoded filenames of the parts whose disposition is
\* "attachment" and whose filename is non-empty; raises what decode_mime_words raises
RECURSIVE AttachmentNames(_)
AttachmentNames(parts) ==
    IF parts = << >> THEN Ok(<< >>)
    ELSE LET part == Head(parts)
             rest == AttachmentNames(Tail(parts))
         IN IF get_content_disposition(part.dispo) = "attachment" /\ part.filename /= << >>
            THEN LET n == decode_mime_words(part.filename)
                 IN IF ~n.ok THEN n
                    ELSE IF ~rest.ok THEN rest
                    ELSE Ok(<< n.val >> \o rest.val)
            ELSE rest

get_attachment_names(m) == AttachmentNames(m.parts)

(***************************************************************************)
(* Dates.  A date argument is [sep, y, m, d]: the text "y<sep>m<sep>d";    *)
(* NoDate is the argument left at None.                                    *)
(***************************************************************************)
NoDate == [sep |-> None, y |-> 0, m |-> 0, d |-> 0]

IsLeap(y) == (y % 4 = 0 /\ y % 100 /= 0) \/ y % 400 = 0

DaysInMonth(y, m) ==
    IF m = 2 THEN (IF IsLeap(y) THEN 29 ELSE 28)
    ELSE IF m \in { 4, 6, 9, 11 } THEN 30 ELSE 31

MonthAbbr(m) ==
    << "Jan", "Feb", "Mar", "Apr", "May", "Jun",
       "Jul", "Aug", "Sep", "Oct", "Nov", "Dec" >>[m]

\* datetime.strptime(s, "%Y-%m-%d").date()
strptime(s) ==
    IF s.sep = "-" /\ s.y \in 1..9999 /\ s.m \in 1..12 /\ s.d \in 1..DaysInMonth(s.y, s.m)
    THEN Ok([y |-> s.y, m |-> s.m, d |-> s.d])
    ELSE Raise("ValueError")

\* dt.strftime("%d-%b-%Y")
strftime(dt) == [d |-> dt.d, b |-> MonthAbbr(dt.m), y |-> dt.y]

(***************************************************************************)
(* Results handed back to the caller.  shape is "dict" or "list"; key the  *)
(* dict key that carries the payload; text the fixed part of the message,  *)
(* detail the interpolated part; data the list carried.                    *)
(***************************************************************************)
Result(shape, key, text, detail, data) ==
    [shape |-> shape, key |-> key, text |-> text, detail |-> detail, data |-> data]

NoResult == Result("none", "", "", "", << >>)

\* a faulty variant of Boundary: the handler catches transport errors only
BoundaryNarrow(o, e) ==
    IF e \in { "IMAPError", "SMTPError" }
    THEN [outcome |-> "returned",
          result |-> Result("dict", "error", "Error: ", e, << >>)]
    ELSE [outcome |-> "raised", result |-> NoResult]

\* the "except Exception as e: return ..." clause that closes each operation
Boundary(o, e) ==
    [outcome |-> "returned",
     result |->
        IF o = "search_emails"
        THEN Result("dict", "error", "Error searching emails: ", e, << >>)
        ELSE IF o = "download_attachment"
        THEN Result("list", "", "Error downloading attachment: ", e, << >>)
        ELSE IF o = "list_folders"
        THEN Result("list", "", "Error listing folders: ", e, << >>)
        ELSE Result("dict", "message", "Error sending email: ", e, << >>)]

\* leaving the operation by a return statement
Return(r) ==
    /\ pc' = "returned"
    /\ outcome' = "returned"
    /\ result' = r

\* leaving the operation through its except clause
Caught(e) ==
    /\ pc' = "returned"
    /\ outcome' = Boundary(op, e).outcome
    /\ result' = Boundary(op, e).result

(***************************************************************************)
(* Inputs.                                                                 *)
(***************************************************************************)
Ids == 1..MaxIds

DateInputs ==
    { NoDate,
      [sep |-> "-", y |-> 2024, m |-> 2, d |-> 29],     \* "2024-02-29"
      [sep |-> "-", y |-> 2023, m |-> 2, d |-> 29],     \* "2023-02-29", no such day
      [sep |-> "/", y |-> 2024, m |-> 1, d |-> 15] }    \* "2024/01/15"

\* what server.search may return: distinct identifiers in any order
SearchResults ==
    { s \in UNION { [1..n -> Ids] : n \in 0..MaxIds } :
        \A i, j \in 1..Len(s) : i /= j => s[i] /= s[j] }

TextPart(ctype, charset, payload) ==
    [ctype |-> ctype, dispo |-> "", filename |-> << >>,
     charset |-> charset, payload |-> payload]

FilePart(filename) ==
    [ctype |-> "application/octet-stream", dispo |-> "attachment",
     filename |-> filename, charset |-> None, payload |-> << "d" >>]

\* the messages a fetch may deliver
PlainMsg ==
    [multipart |-> FALSE, subject |-> << StrWord(<< "S" >>) >>,
     parts |-> << TextPart("text/plain", None, << "x" >>) >>]
AttachmentMsg ==
    [multipart |-> TRUE, subject |-> << EncWord("utf-8", TRUE, << "E" >>) >>,
     parts |-> << TextPart("text/plain", "utf-8", << " ", "y" >>),
                  TextPart("text/html", "utf-8", << "h" >>),
                  FilePart(<< StrWord(<< "f" >>) >>) >>]
DegradedMsg ==    \* multipart, the only text part names an unknown charset
    [multipart |-> TRUE, subject |-> << >>,
     parts |-> << TextPart("text/plain", "x-unknown", << "z" >>) >>]
BadSubjectMsg ==  \* Subject: =?utf-8?b?/w==?=
    [multipart |-> FALSE, subject |-> << EncWord("utf-8", FALSE, << >>) >>,
     parts |-> << TextPart("text/plain", None, << "x" >>) >>]
BadFilenameMsg == \* attachment filename =?x-unknown?b?YQ==?=
    [multipart |-> TRUE, subject |-> << StrWord(<< "S" >>) >>,
     parts |-> << TextPart("text/plain", None, << "x" >>),
                  FilePart(<< EncWord("x-unknown", TRUE, << "a" >>) >>) >>]
BadCharsetMsg ==  \* not multipart, Content-Type: text/plain; charset=x-unknown
    [multipart |-> FALSE, subject |-> << StrWord(<< "S" >>) >>,
     parts |-> << TextPart("text/plain", "x-unknown", << "x" >>) >>]

Catalogue ==
    { PlainMsg, AttachmentMsg, DegradedMsg, BadSubjectMsg, BadFilenameMsg, BadCharsetMsg }

\* whether a message has a part marked as attachment that carries a filename
HasAttachment(raw) ==
    \E k \in 1..Len(raw.parts) :
        raw.parts[k].dispo = "attachment" /\ raw.parts[k].filename /= << >>

\* an entry of the history of fetches: the identifier asked for and whether the
\* message delivered bears an attachment
Fetched(id, raw) == [id |-> id, bearing |-> HasAttachment(raw)]

(***************************************************************************)
(* search_emails                                                           *)
(***************************************************************************)
BodyLimit == 5000

\* truthiness of an optional text argument
Given(x) == x /= None /\ x /= ""
GivenDate(x) == x /= NoDate

Log(c, i) == [call |-> c, id |-> i]

\* lines 214-234: the criteria list and the date that failed to parse, if any
SearchCriteria(a) ==
    LET from == IF Given(a.sender_filter) THEN << << "FROM", a.sender_filter >> >> ELSE << >>
        text == IF Given(a.search_string) THEN << << "TEXT", a.search_string >> >> ELSE << >>
        since == IF GivenDate(a.since_date) THEN strptime(a.since_date) ELSE Raise("absent")
        before == IF GivenDate(a.before_date) THEN strptime(a.before_date) ELSE Raise("absent")
    IN IF GivenDate(a.since_date) /\ ~since.ok
       THEN [bad |-> "since_date", criteria |-> << >>]
       ELSE IF GivenDate(a.before_date) /\ ~before.ok
       THEN [bad |-> "before_date", criteria |-> << >>]
       ELSE [bad |-> "none",
             criteria |->
                from \o text
                \o (IF since.ok THEN << << "SINCE", strftime(since.val) >> >> ELSE << >>)
                \o (IF before.ok THEN << << "BEFORE", strftime(before.val) >> >> ELSE << >>)]

RECURSIVE Insert(_, _, _)
Insert(x, s, reverse) ==
    IF s = << >> THEN << x >>
    ELSE IF (IF reverse THEN x >= Head(s) ELSE x <= Head(s))
         THEN << x >> \o s
         ELSE << Head(s) >> \o Insert(x, Tail(s), reverse)

RECURSIVE InsertionSort(_, _)
InsertionSort(s, reverse) ==
    IF s = << >> THEN << >>
    ELSE Insert(Head(s), InsertionSort(Tail(s), reverse), reverse)

\* sorted(s, reverse=reverse)
sorted(s, reverse) == InsertionSort(s, reverse)

Absent == << "absent" >>

\* lines 250-271 for one fetched message: skip it, or build its summary, or raise.
\* msg_id is history: the identifier the summary was built from (the code's
\* summary carries no identifier).
Summarise(raw, msg_id, a) ==
    LET attachments == get_attachment_names(raw)
        subject == decode_mime_words(
                      IF raw.subject = << >> THEN << StrWord(<< "(No Subject)" >>) >>
                      ELSE raw.subject)
        bodies == extract_email_bodies(raw)
    IN IF ~attachments.ok THEN attachments
       ELSE IF a.has_attachment /\ attachments.val = << >>
       THEN Ok([skip |-> TRUE, data |-> << >>])
       ELSE IF ~subject.ok THEN subject
       ELSE IF ~bodies.ok THEN bodies
       ELSE Ok([skip |-> FALSE,
                data |-> [msg_id |-> msg_id,
                          subject |-> subject.val,
                          body |-> SubSeq(bodies.val.text, 1,
                                          Min(Len(bodies.val.text), BodyLimit)),
                          attachments |-> attachments.val,
                          body_html |-> IF a.include_html THEN bodies.val.html
                                        ELSE Absent]])

\* line 246: if len(email_list) >= limit: break
LimitReached(list, limit) == Len(list) >= limit

SearchArgs ==
    [search_string : { "", "x" },
     folder : { "INBOX" },
     limit : 0..MaxLimit,
     since_date : DateInputs,
     before_date : DateInputs,
     sort_ascending : BOOLEAN,
     include_html : BOOLEAN,
     sender_filter : { None, "s" },
     has_attachment : BOOLEAN]

Locals ==
    /\ search_criteria = << >>
    /\ messages = << >>
    /\ idx = 1
    /\ email_list = << >>
    /\ fetched = << >>
    /\ msg = PlainMsg
    /\ saved_files = << >>
    /\ outbox = << >>
    /\ calls = << >>
    /\ outcome = "none"
    /\ result = NoResult

Init ==
    /\ pc = "idle"
    /\ op = "none"
    /\ args = [none |-> TRUE]
    /\ imap = "none"
    /\ smtp = "none"
    /\ Locals

CallSearch ==
    /\ pc = "idle"
    /\ \E a \in SearchArgs : args' = a
    /\ op' = "search_emails"
    /\ pc' = "connect"
    /\ UNCHANGED << imap, smtp, calls, search_criteria, messages, idx, email_list,
                    fetched, msg, saved_files, outbox, outcome, result >>

\* connect_to_email, lines 38-45, and the isinstance test that follows its call
ConnectToEmail ==
    /\ pc = "connect"
    /\ \/ /\ calls' = calls \o << Log("IMAPClient", 0), Log("login", 0) >>
          /\ imap' = "open"
          /\ pc' = IF op = "list_folders" THEN "list" ELSE "select"
          /\ UNCHANGED << outcome, result >>
       \/ /\ calls' = calls \o << Log("IMAPClient", 0) >>
          /\ imap' = "none"
          /\ Return(IF op = "search_emails"
                    THEN Result("dict", "error", "Error connecting to email server: ",
                                "IMAPError", << >>)
                    ELSE Result("list", "", "Error connecting to email server: ",
                                "IMAPError", << >>))
       \/ /\ calls' = calls \o << Log("IMAPClient", 0), Log("login", 0) >>
          /\ imap' = "open"
          /\ Return(IF op = "search_emails"
                    THEN Result("dict", "error", "Error connecting to email server: ",
                                "IMAPError", << >>)
                    ELSE Result("list", "", "Error connecting to email server: ",
                                "IMAPError", << >>))
    /\ UNCHANGED << op, args, smtp, search_criteria, messages, idx, email_list,
                    fetched, msg, saved_files, outbox >>

\* server.select_folder(folder), lines 212 and 307
SelectFolder ==
    /\ pc = "select"
    /\ calls' = calls \o << Log("select_folder", 0) >>
    /\ \/ /\ pc' = "criteria"
          /\ UNCHANGED << outcome, result >>
       \/ Caught("IMAPError")
    /\ UNCHANGED << op, args, imap, smtp, search_criteria, messages, idx, email_list,
                    fetched, msg, saved_files, outbox >>

\* lines 214-238
SearchBuildCriteria ==
    /\ pc = "criteria"
    /\ op = "search_emails"
    /\ LET c == SearchCriteria(args)
       IN IF c.bad = "since_date"
          THEN /\ Return(Result("dict", "error",
                                "Invalid format for since_date. Use YYYY-MM-DD.", "", << >>))
               /\ UNCHANGED search_criteria
          ELSE IF c.bad = "before_date"
          THEN /\ Return(Result("dict", "error",
                                "Invalid format for before_date. Use YYYY-MM-DD.", "", << >>))
               /\ UNCHANGED search_criteria
          ELSE IF Len(c.criteria) = 0
          THEN /\ Return(Result("dict", "error", "No search criteria specified.", "", << >>))
               /\ UNCHANGED search_criteria
          ELSE /\ search_criteria' = c.criteria
               /\ pc' = "search"
               /\ UNCHANGED << outcome, result >>
    /\ UNCHANGED << op, args, imap, smtp, calls, messages, idx, email_list,
                    fetched, msg, saved_files, outbox >>

\* lines 241-244
SearchMessages ==
    /\ pc = "search"
    /\ op = "search_emails"
    /\ calls' = calls \o << Log("search", 0) >>
    /\ \/ \E found \in SearchResults :
             /\ messages' = sorted(found, ~args.sort_ascending)
             /\ idx' = 1
             /\ email_list' = << >>
             /\ pc' = "loop"
             /\ UNCHANGED << outcome, result >>
       \/ /\ Caught("IMAPError")
          /\ UNCHANGED << messages, idx, email_list >>
    /\ UNCHANGED << op, args, imap, smtp, search_criteria, fetched, msg, saved_files, outbox >>

\* one iteration of the loop of lines 245-273 that gets past the limit test
SearchFetch ==
    /\ pc = "loop"
    /\ idx <= Len(messages)
    /\ ~LimitReached(email_list, args.limit)
    /\ calls' = calls \o << Log("fetch", messages[idx]) >>
    /\ \/ \E raw \in Catalogue :
             LET s == Summarise(raw, messages[idx], args)
             IN /\ fetched' = fetched \o << Fetched(messages[idx], raw) >>
                /\ IF ~s.ok
                   THEN /\ Caught(s.exc)
                        /\ UNCHANGED << idx, email_list >>
                   ELSE /\ idx' = idx + 1
                        /\ email_list' = IF s.val.skip THEN email_list
                                         ELSE Append(email_list, s.val.data)
                        /\ UNCHANGED << pc, outcome, result >>
       \/ /\ Caught("IMAPError")
          /\ UNCHANGED << idx, email_list, fetched >>
    /\ UNCHANGED << op, args, imap, smtp, search_criteria, messages, msg, saved_files, outbox >>

\* the loop ends (break at line 247, or identifiers exhausted); lines 275-277
SearchFinish ==
    /\ pc = "loop"
    /\ idx > Len(messages) \/ LimitReached(email_list, args.limit)
    /\ Return(IF email_list = << >>
              THEN Result("dict", "emails", "No emails found.", "", << >>)
              ELSE Result("dict", "emails", "", "", email_list))
    /\ UNCHANGED << op, args, imap, smtp, calls, search_criteria, messages, idx,
                    email_list, fetched, msg, saved_files, outbox >>

(***************************************************************************)
(* download_attachment                                                     *)
(***************************************************************************)
\* lines 310-321
DownloadCriteria(a) ==
    LET from == IF Given(a.sender_filter) THEN << << "FROM", a.sender_filter >> >> ELSE << >>
        text == IF Given(a.search_string) THEN << << "TEXT", a.search_string >> >> ELSE << >>
        since == IF GivenDate(a.since_date) THEN strptime(a.since_date) ELSE Raise("absent")
    IN IF GivenDate(a.since_date) /\ ~since.ok
       THEN [bad |-> "since_date", criteria |-> << >>]
       ELSE [bad |-> "none",
             criteria |->
                from \o text
                \o (IF since.ok THEN << << "SINCE", strftime(since.val) >> >> ELSE << >>)]

\* needle in haystack, for character strings
Contains(haystack, needle) ==
    \E k \in 0..(Len(haystack) - Len(needle)) :
        SubSeq(haystack, k + 1, k + Len(needle)) = needle

DownloadArgs ==
    [search_string : { "", "x" },
     folder : { "INBOX" },
     sender_filter : { None, "s" },
     since_date : DateInputs,
     attachment_name : { NoneStr, << "f" >>, << "q" >> },
     download_dir : { "./downloads" }]

CallDownload ==
    /\ pc = "idle"
    /\ \E a \in DownloadArgs : args' = a
    /\ op' = "download_attachment"
    /\ pc' = "connect"
    /\ UNCHANGED << imap, smtp, calls, search_criteria, messages, idx, email_list,
                    fetched, msg, saved_files, outbox, outcome, result >>

\* lines 310-321
DownloadBuildCriteria ==
    /\ pc = "criteria"
    /\ op = "download_attachment"
    /\ LET c == DownloadCriteria(args)
       IN IF c.bad = "since_date"
          THEN /\ Return(Result("list", "",
                                "Invalid date format for 'since_date'. Use YYYY-MM-DD.",
                                "", << >>))
               /\ UNCHANGED search_criteria
          ELSE /\ search_criteria' = c.criteria
               /\ pc' = "search"
               /\ UNCHANGED << outcome, result >>
    /\ UNCHANGED << op, args, imap, smtp, calls, messages, idx, email_list,
                    fetched, msg, saved_files, outbox >>

\* lines 323-325
DownloadSearch ==
    /\ pc = "search"
    /\ op = "download_attachment"
    /\ calls' = calls \o << Log("search", 0) >>
    /\ \/ \E found \in SearchResults :
             /\ messages' = found
             /\ IF found = << >>
                THEN Return(Result("list", "", "No matching email found for: ",
                                   args.search_string, << >>))
                ELSE /\ pc' = "fetch"
                     /\ UNCHANGED << outcome, result >>
       \/ /\ Caught("IMAPError")
          /\ UNCHANGED messages
    /\ UNCHANGED << op, args, imap, smtp, search_criteria, idx, email_list,
                    fetched, msg, saved_files, outbox >>

\* lines 327-332
DownloadFetch ==
    /\ pc = "fetch"
    /\ calls' = calls \o << Log("fetch", messages[1]) >>
    /\ \/ \E raw \in Catalogue :
             /\ msg' = raw
             /\ fetched' = fetched \o << Fetched(messages[1], raw) >>
             /\ \/ /\ pc' = "parts"         \* os.makedirs succeeded
                   /\ idx' = 1
                   /\ saved_files' = << >>
                   /\ UNCHANGED << outcome, result >>
                \/ /\ Caught("OSError")     \* os.makedirs raised
                   /\ UNCHANGED << idx, saved_files >>
       \/ /\ Caught("IMAPError")
          /\ UNCHANGED << msg, fetched, idx, saved_files >>
    /\ UNCHANGED << op, args, imap, smtp, search_criteria, messages, email_list, outbox >>

\* one iteration of the loop of lines 334-348
DownloadPart ==
    /\ pc = "parts"
    /\ idx <= Len(msg.parts)
    /\ LET part == msg.parts[idx]
           name == decode_mime_words(part.filename)
       IN IF get_content_disposition(part.dispo) /= "attachment" \/ part.filename = << >>
          THEN /\ idx' = idx + 1
               /\ UNCHANGED << pc, outcome, result, saved_files >>
          ELSE IF ~name.ok
          THEN /\ Caught(name.exc)
               /\ UNCHANGED << idx, saved_files >>
          ELSE IF Truthy(args.attachment_name) /\ ~Contains(name.val, args.attachment_name)
          THEN /\ idx' = idx + 1
               /\ UNCHANGED << pc, outcome, result, saved_files >>
          ELSE \/ /\ idx' = idx + 1         \* the file was written
                  /\ saved_files' = Append(saved_files, name.val)
                  /\ UNCHANGED << pc, outcome, result >>
               \/ /\ Caught("OSError")      \* open or write raised
                  /\ UNCHANGED << idx, saved_files >>
    /\ UNCHANGED << op, args, imap, smtp, calls, search_criteria, messages, email_list,
                    fetched, msg, outbox >>

\* line 350
DownloadFinish ==
    /\ pc = "parts"
    /\ idx > Len(msg.parts)
    /\ Return(IF saved_files /= << >>
              THEN Result("list", "", "", "", saved_files)
              ELSE Result("list", "", "No matching attachment found.", "", << >>))
    /\ UNCHANGED << op, args, imap, smtp, calls, search_criteria, messages, idx,
                    email_list, fetched, msg, saved_files, outbox >>

(***************************************************************************)
(* list_folders                                                            *)
(***************************************************************************)
Folder(name) == [flags |-> "", delimiter |-> "/", name |-> name]

FolderListings ==
    { << >>, << Folder("INBOX") >>, << Folder("INBOX"), Folder("Sent") >> }

CallList ==
    /\ pc = "idle"
    /\ args' = [none |-> TRUE]
    /\ op' = "list_folders"
    /\ pc' = "connect"
    /\ UNCHANGED << imap, smtp, calls, search_criteria, messages, idx, email_list,
                    fetched, msg, saved_files, outbox, outcome, result >>

\* lines 368-374
ListFolders ==
    /\ pc = "list"
    /\ calls' = calls \o << Log("list_folders", 0) >>
    /\ \/ \E folders \in FolderListings :
             LET folder_names == [k \in 1..Len(folders) |-> folders[k].name]
             IN Return(IF folder_names /= << >>
                       THEN Result("list", "", "", "", folder_names)
                       ELSE Result("list", "", "No folders found.", "", << >>))
       \/ Caught("IMAPError")
    /\ UNCHANGED << op, args, imap, smtp, search_criteria, messages, idx, email_list,
                    fetched, msg, saved_files, outbox >>

(***************************************************************************)
(* send_email                                                              *)
(***************************************************************************)
EMAIL_ACCOUNT == << "me" >>

\* the filesystem the attachments are read from: "f1" is a readable file,
\* "locked" a file that open() refuses, "nofile" does not exist
IsFile(path) == path \in { "f1", "locked" }
Readable(path) == path = "f1"

Header(name, value) == [name |-> name, value |-> value]

\* lines 160-172: the attachment parts, or the first path that stops the loop
RECURSIVE AttachFiles(_)
AttachFiles(paths) ==
    IF paths = << >> THEN [status |-> "ok", parts |-> << >>, path |-> ""]
    ELSE LET file_path == Head(paths)
             rest == AttachFiles(Tail(paths))
         IN IF ~IsFile(file_path)
            THEN [status |-> "not_found", parts |-> << >>, path |-> file_path]
            ELSE IF ~Readable(file_path)
            THEN [status |-> "raised", parts |-> << >>, path |-> file_path]
            ELSE IF rest.status /= "ok" THEN rest
            ELSE [status |-> "ok",
                  parts |-> << [ctype |-> "application/octet-stream",
                                dispo |-> "attachment", filename |-> file_path] >>
                            \o rest.parts,
                  path |-> ""]

BodyPart(ctype) == [ctype |-> ctype, dispo |-> "", filename |-> ""]

\* a faulty variant of MessageHeaders: the blind copies get a header of their own
MessageHeadersWithBcc(a) ==
    << Header("From", EMAIL_ACCOUNT), Header("To", a.to_email),
       Header("Subject", a.subject) >>
    \o (IF Truthy(a.cc_email) THEN << Header("Cc", a.cc_email) >> ELSE << >>)
    \o (IF Truthy(a.bcc_email) THEN << Header("Bcc", a.bcc_email) >> ELSE << >>)

\* lines 142-148
MessageHeaders(a) ==
    << Header("From", EMAIL_ACCOUNT), Header("To", a.to_email),
       Header("Subject", a.subject) >>
    \o (IF Truthy(a.cc_email) THEN << Header("Cc", a.cc_email) >> ELSE << >>)

\* lines 175-179
Recipients(a) ==
    SplitStrip(a.to_email)
    \o (IF Truthy(a.cc_email) THEN SplitStrip(a.cc_email) ELSE << >>)
    \o (IF Truthy(a.bcc_email) THEN SplitStrip(a.bcc_email) ELSE << >>)

\* lines 142-172: the message, or why there is none
BuildMessage(a) ==
    LET files == AttachFiles(IF a.attachment_paths = NoneStr THEN << >>
                             ELSE a.attachment_paths)
    IN [status |-> files.status,
        path |-> files.path,
        headers |-> MessageHeaders(a),
        parts |-> << BodyPart("text/plain") >>
                  \o (IF Given(a.html_body) THEN << BodyPart("text/html") >> ELSE << >>)
                  \o files.parts]

Pad(addr, pad) == IF pad THEN << " " >> \o addr \o << " " >> ELSE addr

RECURSIVE JoinComma(_)
JoinComma(list) ==
    IF Len(list) = 0 THEN << >>
    ELSE IF Len(list) = 1 THEN list[1]
    ELSE list[1] \o << "," >> \o JoinComma(Tail(list))

\* comma-separated address texts of up to MaxAddrs addresses, padded or not
AddressTexts(addrs) ==
    { JoinComma([k \in 1..Len(l) |-> Pad(l[k], pad)]) :
        l \in UNION { [1..n -> addrs] : n \in 1..MaxAddrs }, pad \in BOOLEAN }

PathLists == UNION { [1..n -> { "f1", "nofile", "locked" }] : n \in 0..MaxPaths }

\* the addresses the arguments are made of
Addresses == { << "a" >>, << "b" >>, << "c" >> }

SendArgs ==
    [to_email : AddressTexts({ << "a" >> }),
     subject : { << "s" >> },
     body : { "text" },
     html_body : { None, "<p>" },
     cc_email : { NoneStr, << >> } \cup AddressTexts({ << "c" >> }),
     bcc_email : { NoneStr, << >>, << "a" >> } \cup AddressTexts({ << "b" >> }),
     attachment_paths : { NoneStr } \cup PathLists]

CallSend ==
    /\ pc = "idle"
    /\ \E a \in SendArgs : args' = a
    /\ op' = "send_email"
    /\ pc' = "smtp_connect"
    /\ UNCHANGED << imap, smtp, calls, search_criteria, messages, idx, email_list,
                    fetched, msg, saved_files, outbox, outcome, result >>

SmtpConnectError ==
    Result("dict", "message", "Error connecting to SMTP server: ", "SMTPError", << >>)

\* connect_to_smtp, lines 47-55, and the isinstance test of lines 138-139
ConnectToSmtp ==
    /\ pc = "smtp_connect"
    /\ \/ /\ calls' = calls \o << Log("SMTP", 0), Log("starttls", 0), Log("login", 0) >>
          /\ smtp' = "open"
          /\ pc' = "build"
          /\ UNCHANGED << outcome, result >>
       \/ /\ calls' = calls \o << Log("SMTP", 0) >>
          /\ smtp' = "none"
          /\ Return(SmtpConnectError)
       \/ /\ calls' = calls \o << Log("SMTP", 0), Log("starttls", 0) >>
          /\ smtp' = "open"
          /\ Return(SmtpConnectError)
       \/ /\ calls' = calls \o << Log("SMTP", 0), Log("starttls", 0), Log("login", 0) >>
          /\ smtp' = "open"
          /\ Return(SmtpConnectError)
    /\ UNCHANGED << op, args, imap, search_criteria, messages, idx, email_list,
                    fetched, msg, saved_files, outbox >>

\* lines 141-182: build the message, then hand it to server.send_message
SendMessage ==
    /\ pc = "build"
    /\ LET m == BuildMessage(args)
       IN IF m.status = "not_found"
          THEN /\ Return(Result("dict", "message", "Attachment file not found: ",
                                m.path, << >>))
               /\ UNCHANGED << calls, outbox >>
          ELSE IF m.status = "raised"
          THEN /\ Caught("OSError")
               /\ UNCHANGED << calls, outbox >>
          ELSE /\ calls' = calls \o << Log("send_message", 0) >>
               /\ outbox' = Append(outbox, [headers |-> m.headers, parts |-> m.parts,
                                            to_addrs |-> Recipients(args)])
               /\ \/ /\ pc' = "quit"
                     /\ UNCHANGED << outcome, result >>
                  \/ Caught("SMTPError")
    /\ UNCHANGED << op, args, imap, smtp, search_criteria, messages, idx, email_list,
                    fetched, msg, saved_files >>

\* lines 183-185
Quit ==
    /\ pc = "quit"
    /\ calls' = calls \o << Log("quit", 0) >>
    /\ smtp' = "closed"
    /\ \/ Return(Result("dict", "message", "Email sent successfully to ", "to_email", << >>))
       \/ Caught("SMTPError")
    /\ UNCHANGED << op, args, imap, search_criteria, messages, idx, email_list,
                    fetched, msg, saved_files, outbox >>

(***************************************************************************)
(* The server: one request at a time.                                      *)
(***************************************************************************)
\* the caller has the result; the next request starts from fresh locals and
\* with no session in hand
NextRequest ==
    /\ pc = "returned"
    /\ pc' = "idle"
    /\ op' = "none"
    /\ args' = [none |-> TRUE]
    /\ imap' = "none"
    /\ smtp' = "none"
    /\ search_criteria' = << >>
    /\ messages' = << >>
    /\ idx' = 1
    /\ email_list' = << >>
    /\ fetched' = << >>
    /\ msg' = PlainMsg
    /\ saved_files' = << >>
    /\ outbox' = << >>
    /\ calls' = << >>
    /\ outcome' = "none"
    /\ result' = NoResult

Next ==
    \/ CallSearch
    \/ CallDownload
    \/ CallList
    \/ CallSend
    \/ ConnectToEmail
    \/ SelectFolder
    \/ SearchBuildCriteria
    \/ SearchMessages
    \/ SearchFetch
    \/ SearchFinish
    \/ DownloadBuildCriteria
    \/ DownloadSearch
    \/ DownloadFetch
    \/ DownloadPart
    \/ DownloadFinish
    \/ ListFolders
    \/ ConnectToSmtp
    \/ SendMessage
    \/ Quit
    \/ NextRequest

Spec == Init /\ [][Next]_vars

(***************************************************************************)
(* extract_email_bodies on its own: a message is drawn, the function is    *)
(* applied once.                                                           *)
(***************************************************************************)
BodyParts ==
    [ctype : { "text/plain", "text/html", "application/octet-stream" },
     dispo : { "", "attachment", "inline; filename=attachment.txt" },
     filename : { << >> },
     charset : { None, "x-unknown" },
     payload : { << >>, << " " >>, << "x" >>, << "BAD", "y" >> }]

BodyMessages ==
    { m \in [multipart : BOOLEAN, subject : { << >> },
             parts : UNION { [1..n -> BodyParts] : n \in 1..MaxParts }] :
        ~m.multipart => Len(m.parts) = 1 }

InitBodies ==
    /\ pc = "extract"
    /\ op = "extract_email_bodies"
    /\ args \in BodyMessages
    /\ imap = "none"
    /\ smtp = "none"
    /\ Locals

ExtractBodies ==
    /\ pc = "extract"
    /\ LET b == extract_email_bodies(args)
       IN /\ outcome' = IF b.ok THEN "returned" ELSE "raised"
          /\ result' = b
    /\ pc' = "returned"
    /\ UNCHANGED << op, args, imap, smtp, calls, search_criteria, messages, idx,
                    email_list, fetched, msg, saved_files, outbox >>

NextBodies == ExtractBodies

SpecBodies == InitBodies /\ [][NextBodies]_vars

(***************************************************************************)
(* Properties.                                                             *)
(***************************************************************************)
InSearch == op = "search_emails"
InDownload == op = "download_attachment"
InSend == op = "send_email"

CallNames == { calls[k].call : k \in 1..Len(calls) }

FetchedIds == [k \in 1..Len(fetched) |-> fetched[k].id]

SummaryIds(list) == [k \in 1..Len(list) |-> list[k].msg_id]

TransportFailed ==
    result.detail = "IMAPError" \/ result.detail = "SMTPError"

\* C1: a search_emails call without search text, sender filter, since-date and
\* before-date returns the "No search criteria specified." error and has issued
\* no transport call.
C1_NoCriteriaWithoutTransport ==
    ( /\ InSearch
      /\ ~Given(args.search_string)
      /\ ~Given(args.sender_filter)
      /\ ~GivenDate(args.since_date)
      /\ ~GivenDate(args.before_date) )
    => /\ calls = << >>
       /\ pc = "returned" => result.text = "No search criteria specified."

\* C2: a search_emails or download_attachment call with a supplied date that is
\* no YYYY-MM-DD calendar date returns the invalid-date error and has issued no
\* network call before it returns.
C2_InvalidDateWithoutNetwork ==
    /\ ( /\ InSearch
         /\ \/ GivenDate(args.since_date) /\ ~strptime(args.since_date).ok
            \/ GivenDate(args.before_date) /\ ~strptime(args.before_date).ok )
       => /\ calls = << >>
          /\ pc = "returned"
             => result.text \in { "Invalid format for since_date. Use YYYY-MM-DD.",
                                  "Invalid format for before_date. Use YYYY-MM-DD." }
    /\ ( /\ InDownload
         /\ GivenDate(args.since_date) /\ ~strptime(args.since_date).ok )
       => /\ calls = << >>
          /\ pc = "returned"
             => result.text = "Invalid date format for 'since_date'. Use YYYY-MM-DD."

\* C3: a send_email call with an attachment path that names no existing file
\* returns the attachment-not-found error, hands no message to the SMTP
\* transport and issues no SMTP call at all.
C3_MissingAttachmentWithoutSmtp ==
    ( /\ InSend
      /\ args.attachment_paths /= NoneStr
      /\ \E k \in 1..Len(args.attachment_paths) : ~IsFile(args.attachment_paths[k]) )
    => /\ calls = << >>
       /\ outbox = << >>
       /\ pc = "returned" => result.text = "Attachment file not found: "

\* C4: when an operation has returned, by whichever path, no session it opened
\* is still open.
C4_NoSessionOpenAfterReturn ==
    pc = "returned" => imap /= "open" /\ smtp /= "open"

\* the operation in flight has a next step at its position
CanStep ==
    \/ pc = "connect" /\ ENABLED ConnectToEmail
    \/ pc = "select" /\ ENABLED SelectFolder
    \/ pc = "criteria" /\ InSearch /\ ENABLED SearchBuildCriteria
    \/ pc = "criteria" /\ InDownload /\ ENABLED DownloadBuildCriteria
    \/ pc = "search" /\ InSearch /\ ENABLED SearchMessages
    \/ pc = "search" /\ InDownload /\ ENABLED DownloadSearch
    \/ pc = "loop" /\ (ENABLED SearchFetch \/ ENABLED SearchFinish)
    \/ pc = "fetch" /\ ENABLED DownloadFetch
    \/ pc = "parts" /\ (ENABLED DownloadPart \/ ENABLED DownloadFinish)
    \/ pc = "list" /\ ENABLED ListFolders
    \/ pc = "smtp_connect" /\ ENABLED ConnectToSmtp
    \/ pc = "build" /\ ENABLED SendMessage
    \/ pc = "quit" /\ ENABLED Quit

\* C5: no failure of an internal step is raised past the boundary of an
\* operation: an operation in flight can always take its next step, and when it
\* has ended it has returned a structured value, which carries a descriptive
\* string whenever a step failed.
C5_AlwaysReturnsStructuredResult ==
    /\ outcome /= "raised"
    /\ pc \notin { "idle", "returned" } => CanStep
    /\ pc = "returned"
       => /\ outcome = "returned"
          /\ result.shape \in { "dict", "list" }
          /\ result.text /= "" \/ result.data /= << >>
          /\ result.detail \in { "IMAPError", "SMTPError", "OSError", "LookupError",
                                 "UnicodeDecodeError" }
             => /\ result.text /= ""
                /\ result.data = << >>

\* a file write that fails inside download_attachment comes back as a result
C5_Witness ==
    /\ pc = "returned"
    /\ InDownload
    /\ outcome = "returned"
    /\ result.detail = "OSError"
    /\ Len(fetched) = 1

\* the identifiers in the order the claim of C6 / C7 expects: strictly
\* descending (ascending when asc), drawn from matches
Ordered(ids, asc) ==
    \A k \in 1..(Len(ids) - 1) : IF asc THEN ids[k] < ids[k + 1] ELSE ids[k] > ids[k + 1]

\* ids are the first Len(ids) elements of the set matches in that order
LeadingOf(ids, matches, asc) ==
    /\ Ordered(ids, asc)
    /\ \A k \in 1..Len(ids) : ids[k] \in matches
    /\ \A x \in matches :
          (\A k \in 1..Len(ids) : ids[k] /= x)
          => \A k \in 1..Len(ids) : IF asc THEN ids[k] < x ELSE ids[k] > x

Matches == { messages[k] : k \in 1..Len(messages) }

\* C6: a search_emails call with has_attachment false whose transport calls all
\* succeed returns the summaries of the first min(limit, number of matches)
\* identifiers in descending order (ascending when sort_ascending), in that order.
C6_FirstIdentifiersInOrder ==
    ( /\ pc = "returned"
      /\ InSearch
      /\ ~args.has_attachment
      /\ "search" \in CallNames
      /\ ~TransportFailed )
    => /\ result.key = "emails"
       /\ Len(result.data) = Min(args.limit, Cardinality(Matches))
       /\ LeadingOf(SummaryIds(result.data), Matches, args.sort_ascending)

\* the identifiers among those fetched whose message bears an attachment
RECURSIVE Bearing(_)
Bearing(f) ==
    IF f = << >> THEN << >>
    ELSE (IF Head(f).bearing THEN << Head(f).id >> ELSE << >>)
         \o Bearing(Tail(f))

\* C7: with has_attachment true the filter acts on fetched messages only,
\* messages without attachment do not count toward limit, the result is the
\* attachment-bearing matches in sort order capped at limit, nothing is fetched
\* once limit summaries are accepted, and every identifier is fetched when
\* fewer than limit are accepted.
C7_AttachmentFilterAfterFetch ==
    ( /\ InSearch
      /\ args.has_attachment
      /\ "search" \in CallNames
      /\ ~TransportFailed )
    => /\ Len(email_list) <= args.limit
       /\ Len(email_list) = args.limit
          => \A k \in 1..Len(fetched) : k < Len(fetched) =>
                Len(Bearing(SubSeq(fetched, 1, k))) < args.limit
       /\ LeadingOf(FetchedIds, Matches, args.sort_ascending)
       /\ pc = "returned"
          => /\ result.key = "emails"
             /\ SummaryIds(result.data) = Bearing(fetched)
             /\ Len(result.data) < args.limit => Len(fetched) = Len(messages)

\* C8: a decoding failure inside one fetched message never aborts the search:
\* no search_emails call ends in an error that reports a decoding exception.
C8_DecodingFailureNeverAborts ==
    (pc = "returned" /\ InSearch)
    => result.detail \notin { "LookupError", "UnicodeDecodeError" }

NoSpaces(s) == SelectSeq(s, LAMBDA c : ~IsWhite(c))

Trimmed(r) == r = << >> \/ (~IsWhite(r[1]) /\ ~IsWhite(r[Len(r)]))

CommaFree(r) == \A k \in 1..Len(r) : r[k] /= ","

\* the address fields given, glued with commas
GivenAddressText(a) ==
    a.to_email
    \o (IF Truthy(a.cc_email) THEN << "," >> \o a.cc_email ELSE << >>)
    \o (IF Truthy(a.bcc_email) THEN << "," >> \o a.bcc_email ELSE << >>)

HeaderNames(m) == { m.headers[k].name : k \in 1..Len(m.headers) }

HeaderValue(m, name) ==
    (CHOOSE k \in 1..Len(m.headers) : m.headers[k].name = name) 

\* C9: a message handed to the transport goes to the comma-split, trimmed
\* addresses of to, cc and bcc together; its headers are From, To, Subject and,
\* when cc is given, Cc, with To and Cc holding the to and cc texts; there is
\* no Bcc header, and an address given as bcc only is in no header.
C9_BccOnlyInRecipients ==
    \A i \in 1..Len(outbox) :
        LET m == outbox[i]
        IN /\ \A k \in 1..Len(m.to_addrs) :
                 Trimmed(m.to_addrs[k]) /\ CommaFree(m.to_addrs[k])
           /\ JoinComma(m.to_addrs) = NoSpaces(GivenAddressText(args))
           /\ HeaderNames(m) =
                 { "From", "To", "Subject" }
                 \cup (IF Truthy(args.cc_email) THEN { "Cc" } ELSE { })
           /\ Len(m.headers) = Cardinality(HeaderNames(m))
           /\ m.headers[HeaderValue(m, "To")].value = args.to_email
           /\ Truthy(args.cc_email)
              => m.headers[HeaderValue(m, "Cc")].value = args.cc_email
           /\ Truthy(args.bcc_email)
              => \A b \in { x \in Addresses :
                             /\ Contains(args.bcc_email, x)
                             /\ ~Contains(args.to_email, x)
                             /\ ~(Truthy(args.cc_email) /\ Contains(args.cc_email, x)) } :
                    \A k \in 1..Len(m.headers) : ~Contains(m.headers[k].value, b)

C9_Witness ==
    /\ pc = "quit"
    /\ Len(outbox) = 1
    /\ Truthy(args.cc_email)
    /\ args.bcc_email = << " ", "b", " ", ",", " ", "b", " " >>
    /\ outbox[1].to_addrs[Len(outbox[1].to_addrs)] = << "b" >>
    /\ Len(outbox[1].to_addrs) >= 4

NoDecodingFailure == result.detail \notin { "LookupError", "UnicodeDecodeError" }

\* The ordering and limit of C6 on the searches that no decoding failure aborts.
SearchOrderWhenDecodable ==
    ( /\ pc = "returned"
      /\ InSearch
      /\ ~args.has_attachment
      /\ "search" \in CallNames
      /\ ~TransportFailed
      /\ NoDecodingFailure )
    => /\ result.key = "emails"
       /\ Len(result.data) = Min(args.limit, Cardinality(Matches))
       /\ LeadingOf(SummaryIds(result.data), Matches, args.sort_ascending)

\* The scan of C7 on the searches that no decoding failure aborts.
AttachmentScanWhenDecodable ==
    ( /\ InSearch
      /\ args.has_attachment
      /\ "search" \in CallNames
      /\ ~TransportFailed
      /\ NoDecodingFailure )
    => /\ Len(email_list) <= args.limit
       /\ Len(email_list) = args.limit
          => \A k \in 1..Len(fetched) : k < Len(fetched) =>
                Len(Bearing(SubSeq(fetched, 1, k))) < args.limit
       /\ LeadingOf(FetchedIds, Matches, args.sort_ascending)
       /\ pc = "returned"
          => /\ result.key = "emails"
             /\ SummaryIds(result.data) = Bearing(fetched)
             /\ Len(result.data) < args.limit => Len(fetched) = Len(messages)

(***************************************************************************)
(* extract_email_bodies (checked under SpecBodies, where args is the       *)
(* message).                                                               *)
(***************************************************************************)
NotAttachment(part) == ~MentionsAttachment(part.dispo)

AllCharsetsKnown(m) == \A k \in 1..Len(m.parts) : DecodePayload(m.parts[k]).ok

\* the non-attachment parts of the given type
OfType(m, ctype) ==
    { k \in 1..Len(m.parts) : NotAttachment(m.parts[k]) /\ m.parts[k].ctype = ctype }

\* those of them that decode to a non-empty string
NonEmptyOfType(m, ctype) ==
    { k \in OfType(m, ctype) :
        DecodePayload(m.parts[k]).ok /\ DecodePayload(m.parts[k]).val /= << >> }

Least(S) == CHOOSE k \in S : \A j \in S : k <= j

\* the body taken from the first part among candidates, the sentinel when
\* there is none or when its content is empty after trimming
BodyFrom(m, candidates, sentinel) ==
    IF candidates = { } THEN sentinel
    ELSE LET content == strip(DecodePayload(m.parts[Least(candidates)]).val)
         IN IF content = << >> THEN sentinel ELSE content

\* C10, as claimed: for a multipart message the text body comes from the first
\* non-attachment text/plain part and the HTML body from the first
\* non-attachment text/html part, whatever that part's content, an empty one
\* included (stated for the messages whose parts all name a known charset).
C10_FirstPartWhateverItsContent ==
    (pc = "returned" /\ args.multipart /\ AllCharsetsKnown(args))
    => /\ result.ok
       /\ result.val.text = BodyFrom(args, OfType(args, "text/plain"), NoPlainText)
       /\ result.val.html = BodyFrom(args, OfType(args, "text/html"), NoHtml)

\* C10, amended: for a multipart message the text body comes from the first
\* non-attachment text/plain part that decodes to a non-empty string, the HTML
\* body from the first such text/html part; later parts of the type are
\* ignored; the sentinel stands in when there is no such part or when the
\* chosen content is empty after trimming.
C10_FirstNonEmptyPartWins ==
    (pc = "returned" /\ args.multipart)
    => /\ result.ok
       /\ result.val.text = BodyFrom(args, NonEmptyOfType(args, "text/plain"), NoPlainText)
       /\ result.val.html = BodyFrom(args, NonEmptyOfType(args, "text/html"), NoHtml)

\* two text/plain parts with content: the first is taken, the second ignored
C10_Witness ==
    /\ pc = "returned"
    /\ args.multipart
    /\ Len(args.parts) = 2
    /\ \A k \in 1..2 : /\ args.parts[k].ctype = "text/plain"
                       /\ args.parts[k].dispo = ""
                       /\ args.parts[k].charset = None
    /\ args.parts[1].payload = << "x" >>
    /\ args.parts[2].payload = << "BAD", "y" >>
    /\ result.val.text = << "x" >>

====
